---- MODULE Spec2Model ----
(***************************************************************************)
(* A model of kasuboski/cli_explain.                                       *)
(*                                                                         *)
(*   Spec         the two conversational drivers: run_chat_interface of    *)
(*                cli_explainer.py and chat of hello.py.  Init chooses the *)
(*                program that runs (prog).                                *)
(*   SpecHarvest  the four harvester functions (get_help_text and          *)
(*                get_man_page of cli_explainer.py, get_cli_help and       *)
(*                get_manpage of hello.py), each applied once to inputs    *)
(*                and a child-process outcome drawn by Init.               *)
(*                                                                         *)
(* A text is a sequence of pieces: a literal of the source is one piece,   *)
(* an interpolated value contributes its own pieces.                       *)
(***************************************************************************)
EXTENDS Integers, Sequences, FiniteSets, TLC

VARIABLES
    prog,             \* the program that runs: "cli_explainer", "hello" or "harvester"
    pc,               \* where the driver is blocked (a prompt, a run_sync call) or how it ended
    tool_name,        \* run_chat_interface: local tool_name
    prev_result,      \* run_chat_interface: local prev_result
    initial_question, \* chat: the optional command-line argument
    out,              \* the last thing the driver printed
    ncalls,           \* number of agent.run_sync calls started
    call,             \* arguments of the latest agent.run_sync call
    session,          \* history: the exchanges answered since the last tool name was entered
    lastEvent,        \* history: the event the latest step handled
    fn,               \* harvester: the function called
    cli_tool_name,    \* harvester: argument cli_tool_name
    subcommand,       \* harvester: argument subcommand (get_help_text) / command (get_cli_help)
    child,            \* harvester: what launching and running the child process does
    argv,             \* harvester: the argument list handed to subprocess
    result            \* harvester: how the call ended (a returned text or a raised exception)

driverVars == <<pc, tool_name, prev_result, initial_question, out, ncalls, call, session, lastEvent>>
harvestVars == <<fn, cli_tool_name, subcommand, child, argv, result>>
vars == <<prog, pc, tool_name, prev_result, initial_question, out, ncalls, call, session,
          lastEvent, fn, cli_tool_name, subcommand, child, argv, result>>

-----------------------------------------------------------------------------
(* Bounds *)

\* agent.run_sync calls in one run of a driver
MaxCalls == 3

-----------------------------------------------------------------------------
(* Values *)

\* Python's None, for a variable that otherwise holds a record
None == [none |-> TRUE]

\* a string variable that holds no string (unbound local, argument None)
NoStr == "<None>"

\* what the user may type at a prompt
Inputs == {"quit", "QUIT", "exit", "q", "switch", "Switch", "git", "how"}

\* what a prompt may raise instead of returning a line
PromptRaises == {"KeyboardInterrupt", "EOFError"}

\* what agent.run_sync may raise instead of returning a result
CallRaises == {"KeyboardInterrupt", "UnexpectedModelBehavior", "APIConnectionError"}

\* the classes among these that derive from Exception (KeyboardInterrupt derives
\* from BaseException only)
ExceptionSubclasses == {"EOFError", "UnexpectedModelBehavior", "APIConnectionError"}

IsException(e) == e \in ExceptionSubclasses

\* str.lower() on the inputs
Lower(s) == CASE s = "QUIT" -> "quit"
              [] s = "Switch" -> "switch"
              [] OTHER -> s

NoCall == [query |-> NoStr, message_history |-> <<>>, deps |-> NoStr]

NoEvent == [at |-> "start", kind |-> "none", value |-> NoStr]

Event(at, kind, value) == [at |-> at, kind |-> kind, value |-> value]

-----------------------------------------------------------------------------
(* The reasoning component, as the drivers use it *)

\* one question/answer exchange: the request and response messages of run number n
Exchange(c, n) == [q |-> c.query, tool |-> c.deps, n |-> n]

\* agent.run_sync(query, message_history=..., deps=...) returning: the result of
\* run number n knows the messages of this run (new) and those with the history
\* it was given (all)
AgentRunSync(c, n) ==
    [all |-> Append(c.message_history, Exchange(c, n)),
     new |-> <<Exchange(c, n)>>,
     data |-> n]

\* result.new_messages(): the messages of that run alone, without the history
NewMessages(r) == r.new

-----------------------------------------------------------------------------
(* run_chat_interface, cli_explainer.py *)

\* tool_name.lower() == "quit" / query.lower() == "quit"
IsQuit(s) == Lower(s) = "quit"

\* a mutant of IsSwitch: the comparison is made with another word
IsSwitchOtherWord(s) == Lower(s) = "change"

\* query.lower() == "switch"
IsSwitch(s) == Lower(s) = "switch"

\* a mutant of FreshPrevResult: prev_result is not reset when a tool name is entered
KeptPrevResult(prev) == prev

\* prev_result = None, at the start of every tool session
FreshPrevResult(prev) == None

\* message_history=prev_result.new_messages() if prev_result else []
MessageHistory(prev) == IF prev # None THEN NewMessages(prev) ELSE <<>>

\* a mutant of OuterExcept: the outer try has no except Exception clause
OuterExceptInterruptOnly(e, o) ==
    IF e = "KeyboardInterrupt" THEN [pc |-> "done", out |-> "exiting"]
    ELSE [pc |-> "raised", out |-> o]

\* the handlers of the outer try: except KeyboardInterrupt / except Exception
OuterExcept(e, o) ==
    IF e = "KeyboardInterrupt" THEN [pc |-> "done", out |-> "exiting"]
    ELSE IF IsException(e) THEN [pc |-> "tool_prompt", out |-> "error"]
    ELSE [pc |-> "raised", out |-> o]

\* a mutant of InnerExcept: the inner try is missing, the outer handlers decide
InnerExceptMissing(e, o) ==
    IF e = "KeyboardInterrupt" THEN [pc |-> "done", out |-> "exiting"]
    ELSE IF IsException(e) THEN [pc |-> "tool_prompt", out |-> "error"]
    ELSE [pc |-> "raised", out |-> o]

\* the handler of the inner try: except KeyboardInterrupt; anything else goes
\* on to the outer try
InnerExcept(e, o) ==
    IF e = "KeyboardInterrupt" THEN [pc |-> "tool_prompt", out |-> "switching"]
    ELSE OuterExcept(e, o)

\* run_chat_interface is entered: the banner
Main ==
    /\ prog = "cli_explainer"
    /\ pc = "start"
    /\ out' = "banner"
    /\ pc' = "tool_prompt"
    /\ lastEvent' = Event("start", "enter", NoStr)
    /\ UNCHANGED <<prog, tool_name, prev_result, initial_question, ncalls, call, session>>
    /\ UNCHANGED harvestVars

\* the tool-name prompt returns s
ToolPromptInput(s) ==
    /\ prog = "cli_explainer"
    /\ pc = "tool_prompt"
    /\ lastEvent' = Event("tool_prompt", "input", s)
    /\ IF IsQuit(s)
       THEN /\ pc' = "done"
            /\ UNCHANGED <<tool_name, prev_result, out, session>>
       ELSE /\ tool_name' = s
            /\ out' = "now_asking"
            /\ prev_result' = FreshPrevResult(prev_result)
            /\ session' = <<>>
            /\ pc' = "question_prompt"
    /\ UNCHANGED <<prog, initial_question, ncalls, call>>
    /\ UNCHANGED harvestVars

\* the tool-name prompt raises e
ToolPromptRaise(e) ==
    /\ prog = "cli_explainer"
    /\ pc = "tool_prompt"
    /\ lastEvent' = Event("tool_prompt", "raise", e)
    /\ pc' = OuterExcept(e, out).pc
    /\ out' = OuterExcept(e, out).out
    /\ UNCHANGED <<prog, tool_name, prev_result, initial_question, ncalls, call, session>>
    /\ UNCHANGED harvestVars

\* the question prompt returns s
QuestionPromptInput(s) ==
    /\ prog = "cli_explainer"
    /\ pc = "question_prompt"
    /\ IF IsQuit(s)
       THEN /\ pc' = "done"
            /\ UNCHANGED <<out, ncalls, call>>
       ELSE IF IsSwitch(s)
       THEN /\ pc' = "tool_prompt"
            /\ UNCHANGED <<out, ncalls, call>>
       ELSE /\ ncalls < MaxCalls
            /\ call' = [query |-> s,
                        message_history |-> MessageHistory(prev_result),
                        deps |-> tool_name]
            /\ ncalls' = ncalls + 1
            /\ out' = "thinking"
            /\ pc' = "run_sync"
    /\ lastEvent' = Event("question_prompt", "input", s)
    /\ UNCHANGED <<prog, tool_name, prev_result, initial_question, session>>
    /\ UNCHANGED harvestVars

\* the question prompt raises e
QuestionPromptRaise(e) ==
    /\ prog = "cli_explainer"
    /\ pc = "question_prompt"
    /\ lastEvent' = Event("question_prompt", "raise", e)
    /\ pc' = InnerExcept(e, out).pc
    /\ out' = InnerExcept(e, out).out
    /\ UNCHANGED <<prog, tool_name, prev_result, initial_question, ncalls, call, session>>
    /\ UNCHANGED harvestVars

\* agent.run_sync returns: the result is kept and rendered
RunSyncReturn ==
    /\ prog = "cli_explainer"
    /\ pc = "run_sync"
    /\ lastEvent' = Event("run_sync", "return", NoStr)
    /\ prev_result' = AgentRunSync(call, ncalls)
    /\ session' = Append(session, Exchange(call, ncalls))
    /\ out' = "explanation"
    /\ pc' = "question_prompt"
    /\ UNCHANGED <<prog, tool_name, initial_question, ncalls, call>>
    /\ UNCHANGED harvestVars

\* agent.run_sync raises e
RunSyncRaise(e) ==
    /\ prog = "cli_explainer"
    /\ pc = "run_sync"
    /\ lastEvent' = Event("run_sync", "raise", e)
    /\ pc' = InnerExcept(e, out).pc
    /\ out' = InnerExcept(e, out).out
    /\ UNCHANGED <<prog, tool_name, prev_result, initial_question, ncalls, call, session>>
    /\ UNCHANGED harvestVars

-----------------------------------------------------------------------------
(* chat, hello.py *)

\* if initial_question: (None and the empty string are false)
Truthy(s) == s # NoStr /\ s # ""

\* a mutant of IsExitWord: only the word the prompt names is recognised
IsExitWordOnlyExit(s) == Lower(s) = "exit"

\* question.lower() in ['exit', 'quit', 'q']
IsExitWord(s) == Lower(s) \in {"exit", "quit", "q"}

\* the handler around the initial run_sync: except UnexpectedModelBehavior,
\* which reports and returns; that call is inside no other try
ChatInitialExcept(e, o) ==
    IF e = "UnexpectedModelBehavior" THEN [pc |-> "done", out |-> "error"]
    ELSE [pc |-> "raised", out |-> o]

\* the handler of the loop's try: except KeyboardInterrupt
ChatOuterExcept(e, o) ==
    IF e = "KeyboardInterrupt" THEN [pc |-> "done", out |-> "goodbye"]
    ELSE [pc |-> "raised", out |-> o]

\* a mutant of ChatLoopExcept: the handler returns, as the initial one does
ChatLoopExceptReturns(e, o) ==
    IF e = "UnexpectedModelBehavior" THEN [pc |-> "done", out |-> "error"]
    ELSE IF e = "KeyboardInterrupt" THEN [pc |-> "done", out |-> "goodbye"]
    ELSE [pc |-> "raised", out |-> o]

\* the handler around the loop's run_sync: except UnexpectedModelBehavior, which
\* reports and lets the loop go on; anything else goes on to the loop's try
ChatLoopExcept(e, o) ==
    IF e = "UnexpectedModelBehavior" THEN [pc |-> "prompt", out |-> "error"]
    ELSE ChatOuterExcept(e, o)

\* chat is entered: the initial question, when one is given, is submitted
ChatStart ==
    /\ prog = "hello"
    /\ pc = "start"
    /\ lastEvent' = Event("start", "enter", NoStr)
    /\ IF Truthy(initial_question)
       THEN /\ call' = [query |-> initial_question, message_history |-> <<>>, deps |-> NoStr]
            /\ ncalls' = ncalls + 1
            /\ pc' = "initial_run_sync"
       ELSE /\ pc' = "prompt"
            /\ UNCHANGED <<call, ncalls>>
    /\ UNCHANGED <<prog, tool_name, prev_result, initial_question, out, session>>
    /\ UNCHANGED harvestVars

\* the initial agent.run_sync returns
ChatInitialReturn ==
    /\ prog = "hello"
    /\ pc = "initial_run_sync"
    /\ lastEvent' = Event("initial_run_sync", "return", NoStr)
    /\ out' = "answer"
    /\ pc' = "prompt"
    /\ UNCHANGED <<prog, tool_name, prev_result, initial_question, ncalls, call, session>>
    /\ UNCHANGED harvestVars

\* the initial agent.run_sync raises e
ChatInitialRaise(e) ==
    /\ prog = "hello"
    /\ pc = "initial_run_sync"
    /\ lastEvent' = Event("initial_run_sync", "raise", e)
    /\ pc' = ChatInitialExcept(e, out).pc
    /\ out' = ChatInitialExcept(e, out).out
    /\ UNCHANGED <<prog, tool_name, prev_result, initial_question, ncalls, call, session>>
    /\ UNCHANGED harvestVars

\* the question prompt returns s
ChatPromptInput(s) ==
    /\ prog = "hello"
    /\ pc = "prompt"
    /\ IF IsExitWord(s)
       THEN /\ out' = "goodbye"
            /\ pc' = "done"
            /\ UNCHANGED <<ncalls, call>>
       ELSE /\ ncalls < MaxCalls
            /\ call' = [query |-> s, message_history |-> <<>>, deps |-> NoStr]
            /\ ncalls' = ncalls + 1
            /\ pc' = "loop_run_sync"
            /\ UNCHANGED out
    /\ lastEvent' = Event("prompt", "input", s)
    /\ UNCHANGED <<prog, tool_name, prev_result, initial_question, session>>
    /\ UNCHANGED harvestVars

\* the question prompt raises e
ChatPromptRaise(e) ==
    /\ prog = "hello"
    /\ pc = "prompt"
    /\ lastEvent' = Event("prompt", "raise", e)
    /\ pc' = ChatOuterExcept(e, out).pc
    /\ out' = ChatOuterExcept(e, out).out
    /\ UNCHANGED <<prog, tool_name, prev_result, initial_question, ncalls, call, session>>
    /\ UNCHANGED harvestVars

\* the loop's agent.run_sync returns
ChatLoopReturn ==
    /\ prog = "hello"
    /\ pc = "loop_run_sync"
    /\ lastEvent' = Event("loop_run_sync", "return", NoStr)
    /\ out' = "answer"
    /\ pc' = "prompt"
    /\ UNCHANGED <<prog, tool_name, prev_result, initial_question, ncalls, call, session>>
    /\ UNCHANGED harvestVars

\* the loop's agent.run_sync raises e
ChatLoopRaise(e) ==
    /\ prog = "hello"
    /\ pc = "loop_run_sync"
    /\ lastEvent' = Event("loop_run_sync", "raise", e)
    /\ pc' = ChatLoopExcept(e, out).pc
    /\ out' = ChatLoopExcept(e, out).out
    /\ UNCHANGED <<prog, tool_name, prev_result, initial_question, ncalls, call, session>>
    /\ UNCHANGED harvestVars

-----------------------------------------------------------------------------
(* The drivers' specification *)

NoResult == [kind |-> "none", value |-> <<>>, exc |-> NoStr]

NoChild == [launch |-> NoStr, returncode |-> 0, stdout |-> <<>>, stderr |-> <<>>,
            decodable |-> TRUE]

HarvestIdle ==
    /\ fn = NoStr
    /\ cli_tool_name = NoStr
    /\ subcommand = NoStr
    /\ child = NoChild
    /\ argv = <<>>
    /\ result = NoResult

Init ==
    /\ prog \in {"cli_explainer", "hello"}
    /\ pc = "start"
    /\ tool_name = NoStr
    /\ prev_result = None
    /\ initial_question \in (IF prog = "hello" THEN {NoStr, "", "how"} ELSE {NoStr})
    /\ out = NoStr
    /\ ncalls = 0
    /\ call = NoCall
    /\ session = <<>>
    /\ lastEvent = NoEvent
    /\ HarvestIdle

Next ==
    \/ Main
    \/ \E s \in Inputs : ToolPromptInput(s)
    \/ \E e \in PromptRaises : ToolPromptRaise(e)
    \/ \E s \in Inputs : QuestionPromptInput(s)
    \/ \E e \in PromptRaises : QuestionPromptRaise(e)
    \/ RunSyncReturn
    \/ \E e \in CallRaises : RunSyncRaise(e)
    \/ ChatStart
    \/ ChatInitialReturn
    \/ \E e \in CallRaises : ChatInitialRaise(e)
    \/ \E s \in Inputs : ChatPromptInput(s)
    \/ \E e \in PromptRaises : ChatPromptRaise(e)
    \/ ChatLoopReturn
    \/ \E e \in CallRaises : ChatLoopRaise(e)

Spec == Init /\ [][Next]_vars

-----------------------------------------------------------------------------
(* The harvester: subprocess, as the four functions use it *)

Tools == {"git", "ls"}

\* what a child may write to its standard output and to its standard error
StdoutTexts == {<<>>, <<"usage: tool [options]">>}
StderrTexts == {<<>>, <<"fatal: unknown option">>}

\* what launching and running the child can do: the launch fails (the program is
\* not on the search path, or some other OS error such as a file that is not
\* executable), or the child runs, exits with a status and leaves output that
\* decodes as text or does not
ChildOutcomes ==
    [launch : {"FileNotFoundError", "PermissionError"}, returncode : {0},
     stdout : {<<>>}, stderr : {<<>>}, decodable : {TRUE}]
    \cup
    [launch : {"ok"}, returncode : {0, 1},
     stdout : StdoutTexts, stderr : StderrTexts, decodable : BOOLEAN]

Return(text) == [kind |-> "return", value |-> text, exc |-> NoStr]

Raise(e) == [kind |-> "raise", value |-> <<>>, exc |-> e]

\* str(returncode) in a message
StatusText(rc) == IF rc = 0 THEN "0" ELSE "1"

\* subprocess.run(command, capture_output=True, text=True, check=check): Popen
\* raises the OS error of a failed launch, communicate() raises
\* UnicodeDecodeError on output that is no text, and check raises
\* CalledProcessError on a non-zero exit status
SubprocessRun(command, check, ch) ==
    IF ch.launch # "ok" THEN [kind |-> "raise", exc |-> ch.launch, returncode |-> 0,
                              stdout |-> <<>>, stderr |-> <<>>, command |-> command]
    ELSE IF ~ch.decodable THEN [kind |-> "raise", exc |-> "UnicodeDecodeError", returncode |-> 0,
                                stdout |-> <<>>, stderr |-> <<>>, command |-> command]
    ELSE IF check /\ ch.returncode # 0
         THEN [kind |-> "raise", exc |-> "CalledProcessError", returncode |-> ch.returncode,
               stdout |-> ch.stdout, stderr |-> ch.stderr, command |-> command]
    ELSE [kind |-> "return", exc |-> NoStr, returncode |-> ch.returncode,
          stdout |-> ch.stdout, stderr |-> ch.stderr, command |-> command]

\* subprocess.check_output(command, text=True): run with check=True, its stdout
CheckOutput(command, ch) == SubprocessRun(command, TRUE, ch)

\* str(e) of a CalledProcessError
CalledProcessErrorText(r) ==
    <<"Command '">> \o r.command \o <<"' returned non-zero exit status ", StatusText(r.returncode), ".">>

\* str.split() on the command strings
Split(s) == CASE s = "" -> <<>>
              [] s = "commit" -> <<"commit">>
              [] s = "remote add" -> <<"remote", "add">>
              [] OTHER -> <<s>>

-----------------------------------------------------------------------------
(* The harvester of cli_explainer.py *)

\* command = [cli_tool_name]; if subcommand: command.append(subcommand);
\* command.append("-h")
HelpTextCommand(tool, sub) ==
    <<tool>> \o (IF Truthy(sub) THEN <<sub>> ELSE <<>>) \o <<"-h">>

get_help_text(tool, sub, ch) ==
    LET r == SubprocessRun(HelpTextCommand(tool, sub), FALSE, ch)
    IN  IF r.kind = "raise"
        THEN IF r.exc = "FileNotFoundError"
             THEN Return(<<"Error: Command '", tool, "' not found.">>)
             ELSE Raise(r.exc)
        ELSE IF r.returncode = 0
             THEN Return(r.stdout)
             ELSE Return(<<"Error: ">> \o r.stderr)

\* command = ["man", cli_tool_name]
ManPageCommand(tool) == <<"man", tool>>

get_man_page(tool, ch) ==
    LET r == SubprocessRun(ManPageCommand(tool), FALSE, ch)
    IN  IF r.kind = "raise"
        THEN IF r.exc = "FileNotFoundError"
             THEN Return(<<"Error: 'man' command not found.  Is it installed?">>)
             ELSE Raise(r.exc)
        ELSE IF r.returncode = 0
             THEN Return(r.stdout)
             ELSE Return(<<"Error getting man page: ">> \o r.stderr)

-----------------------------------------------------------------------------
(* The harvester of hello.py *)

\* [cli_tool_name] + command.split() + ['-h']
CliHelpCommand(tool, command) == <<tool>> \o Split(command) \o <<"-h">>

get_cli_help(tool, command, ch) ==
    LET r == SubprocessRun(CliHelpCommand(tool, command), FALSE, ch)
    IN  IF r.kind = "raise"
        THEN IF r.exc = "FileNotFoundError"
             THEN Return(<<tool, " is not installed.">>)
             ELSE IF r.exc = "CalledProcessError"
             THEN Return(<<"Failed to get help text for ", tool, ": ">> \o CalledProcessErrorText(r))
             ELSE Raise(r.exc)
        ELSE Return(r.stdout)

get_manpage(tool, ch) ==
    LET r == CheckOutput(ManPageCommand(tool), ch)
    IN  IF r.kind = "raise"
        THEN IF r.exc = "FileNotFoundError"
             THEN Return(<<"Manpage for ", tool, " not found.">>)
             ELSE IF r.exc = "CalledProcessError"
             THEN Return(<<"Failed to get manpage for ", tool, ": ">> \o CalledProcessErrorText(r))
             ELSE Raise(r.exc)
        ELSE Return(r.stdout)

-----------------------------------------------------------------------------
(* The harvester's specification: one call of one function *)

HarvestFns == {"get_help_text", "get_man_page", "get_cli_help", "get_manpage"}

\* the second argument a function may be given: get_help_text takes an optional
\* subcommand, get_cli_help a command string, the man functions none
SecondArgs(f) ==
    CASE f = "get_help_text" -> {NoStr, "", "commit"}
      [] f = "get_cli_help" -> {"", "commit", "remote add"}
      [] OTHER -> {NoStr}

DriversIdle ==
    /\ pc = "start"
    /\ tool_name = NoStr
    /\ prev_result = None
    /\ initial_question = NoStr
    /\ out = NoStr
    /\ ncalls = 0
    /\ call = NoCall
    /\ session = <<>>
    /\ lastEvent = NoEvent

InitHarvest ==
    /\ prog = "harvester"
    /\ fn \in HarvestFns
    /\ cli_tool_name \in Tools
    /\ subcommand \in SecondArgs(fn)
    /\ child \in ChildOutcomes
    /\ argv = <<>>
    /\ result = NoResult
    /\ DriversIdle

CallGetHelpText ==
    /\ prog = "harvester" /\ fn = "get_help_text" /\ result = NoResult
    /\ argv' = HelpTextCommand(cli_tool_name, subcommand)
    /\ result' = get_help_text(cli_tool_name, subcommand, child)
    /\ UNCHANGED <<prog, fn, cli_tool_name, subcommand, child>>
    /\ UNCHANGED driverVars

CallGetManPage ==
    /\ prog = "harvester" /\ fn = "get_man_page" /\ result = NoResult
    /\ argv' = ManPageCommand(cli_tool_name)
    /\ result' = get_man_page(cli_tool_name, child)
    /\ UNCHANGED <<prog, fn, cli_tool_name, subcommand, child>>
    /\ UNCHANGED driverVars

CallGetCliHelp ==
    /\ prog = "harvester" /\ fn = "get_cli_help" /\ result = NoResult
    /\ argv' = CliHelpCommand(cli_tool_name, subcommand)
    /\ result' = get_cli_help(cli_tool_name, subcommand, child)
    /\ UNCHANGED <<prog, fn, cli_tool_name, subcommand, child>>
    /\ UNCHANGED driverVars

CallGetManpage ==
    /\ prog = "harvester" /\ fn = "get_manpage" /\ result = NoResult
    /\ argv' = ManPageCommand(cli_tool_name)
    /\ result' = get_manpage(cli_tool_name, child)
    /\ UNCHANGED <<prog, fn, cli_tool_name, subcommand, child>>
    /\ UNCHANGED driverVars

NextHarvest ==
    \/ CallGetHelpText
    \/ CallGetManPage
    \/ CallGetCliHelp
    \/ CallGetManpage

SpecHarvest == InitHarvest /\ [][NextHarvest]_vars

-----------------------------------------------------------------------------
(* Properties of the drivers, under Spec *)

RunSyncPlaces == {"run_sync", "initial_run_sync", "loop_run_sync"}

PromptPlaces == {"tool_prompt", "question_prompt", "prompt"}

\* the step being taken handles this kind of event at this place
Handles(kind, at) == lastEvent'.kind = kind /\ lastEvent'.at = at

\* C1: in run_chat_interface, 'switch' entered at the question prompt leads to
\* the tool-name prompt with the driver running and without a run_sync call made
\* for it; 'quit' entered at the question prompt ends the driver, after which no
\* prompt of either kind is shown again.
C1_SwitchReturnsQuitEnds ==
    [][/\ Handles("input", "question_prompt")
          => /\ Lower(lastEvent'.value) = "switch"
                => pc' = "tool_prompt" /\ ncalls' = ncalls /\ call' = call
             /\ Lower(lastEvent'.value) = "quit"
                => pc' = "done" /\ ncalls' = ncalls
       /\ pc = "done" => pc' = "done"]_vars

C1_Witness ==
    /\ prog = "cli_explainer"
    /\ lastEvent = Event("question_prompt", "input", "switch")
    /\ pc = "tool_prompt"
    /\ ncalls >= 1

\* C2: in run_chat_interface, after k >= 1 questions answered in a row about the
\* same tool, the message history passed with the next question holds all k
\* exchanges, in order.
C2_HistoryHoldsAllPriorExchanges ==
    (prog = "cli_explainer" /\ pc = "run_sync" /\ Len(session) >= 1)
        => call.message_history = session

\* C3, as claimed: in both drivers, whenever agent.run_sync fails with an
\* exception, the initial question's call included, the driver prints an error
\* message, does not terminate and goes on to a prompt.
C3_EveryFailureReportedAndPrompts ==
    [][(/\ lastEvent'.kind = "raise"
        /\ lastEvent'.at \in RunSyncPlaces
        /\ IsException(lastEvent'.value))
          => out' = "error" /\ pc' \in PromptPlaces]_vars

\* C3, amended: in run_chat_interface a run_sync that fails with an exception
\* derived from Exception is reported and the tool-name prompt follows; in chat
\* only UnexpectedModelBehavior is caught: from a call of the loop it is reported
\* and the prompt follows, from the initial question's call it is reported and
\* chat returns; any other Exception leaves chat unreported.
C3_FailureHandlingPerDriver ==
    [][/\ (Handles("raise", "run_sync") /\ IsException(lastEvent'.value))
          => out' = "error" /\ pc' = "tool_prompt"
       /\ (Handles("raise", "loop_run_sync") /\ lastEvent'.value = "UnexpectedModelBehavior")
          => out' = "error" /\ pc' = "prompt"
       /\ (Handles("raise", "initial_run_sync") /\ lastEvent'.value = "UnexpectedModelBehavior")
          => out' = "error" /\ pc' = "done"
       /\ (/\ lastEvent'.kind = "raise"
           /\ lastEvent'.at \in {"initial_run_sync", "loop_run_sync"}
           /\ IsException(lastEvent'.value)
           /\ lastEvent'.value # "UnexpectedModelBehavior")
          => out' = out /\ pc' = "raised"]_vars

C3_Witness ==
    /\ prog = "hello"
    /\ lastEvent = Event("loop_run_sync", "raise", "UnexpectedModelBehavior")
    /\ pc = "prompt"
    /\ out = "error"

\* C6: in run_chat_interface, the first question after a tool name is entered
\* is sent with an empty message history, and every exchange in a message
\* history was answered in the current tool session.
C6_HistoryStartsEmptyPerSession ==
    (prog = "cli_explainer" /\ pc = "run_sync")
        => /\ session = <<>> => call.message_history = <<>>
           /\ \A i \in 1..Len(call.message_history) :
                 \E j \in 1..Len(session) : session[j] = call.message_history[i]

C6_Witness ==
    /\ prog = "cli_explainer"
    /\ pc = "run_sync"
    /\ ncalls >= 2
    /\ session = <<>>
    /\ call.message_history = <<>>

\* C7, as claimed: at every prompt of both drivers, 'quit', 'exit' and 'q' each
\* terminate the driver, and 'switch' at a question prompt is not submitted as a
\* question.
C7_SentinelsAtEveryPrompt ==
    [][lastEvent'.kind = "input"
          => /\ Lower(lastEvent'.value) \in {"quit", "exit", "q"} => pc' = "done"
             /\ (Lower(lastEvent'.value) = "switch" /\ lastEvent'.at \in {"question_prompt", "prompt"})
                => ncalls' = ncalls]_vars

\* C7, amended: in chat, 'quit', 'exit' and 'q' each terminate the driver
\* unsubmitted and 'switch' is submitted as a question; in run_chat_interface
\* only 'quit' terminates, at either prompt, 'exit' and 'q' are taken as the tool
\* name at the tool-name prompt and submitted as a question at the question
\* prompt, and 'switch' at the question prompt returns to the tool-name prompt
\* unsubmitted.
C7_SentinelsPerDriver ==
    [][/\ Handles("input", "prompt")
          => /\ Lower(lastEvent'.value) \in {"quit", "exit", "q"}
                => pc' = "done" /\ ncalls' = ncalls
             /\ Lower(lastEvent'.value) = "switch"
                => pc' = "loop_run_sync" /\ call'.query = lastEvent'.value
       /\ Handles("input", "tool_prompt")
          => /\ Lower(lastEvent'.value) = "quit" => pc' = "done"
             /\ lastEvent'.value \in {"exit", "q"}
                => pc' = "question_prompt" /\ tool_name' = lastEvent'.value
       /\ Handles("input", "question_prompt")
          => /\ Lower(lastEvent'.value) = "quit" => pc' = "done" /\ ncalls' = ncalls
             /\ Lower(lastEvent'.value) = "switch" => pc' = "tool_prompt" /\ ncalls' = ncalls
             /\ lastEvent'.value \in {"exit", "q"}
                => pc' = "run_sync" /\ call'.query = lastEvent'.value]_vars

C7_Witness ==
    /\ prog = "cli_explainer"
    /\ lastEvent = Event("question_prompt", "input", "exit")
    /\ pc = "run_sync"
    /\ call.query = "exit"

\* C9: in run_chat_interface, a KeyboardInterrupt at the question prompt or
\* during run_sync returns the driver to the tool-name prompt, and one at the
\* tool-name prompt terminates it.
C9_InterruptSwitchesThenExits ==
    [][(lastEvent'.kind = "raise" /\ lastEvent'.value = "KeyboardInterrupt")
          => /\ lastEvent'.at \in {"question_prompt", "run_sync"}
                => pc' = "tool_prompt" /\ out' = "switching"
             /\ lastEvent'.at = "tool_prompt" => pc' = "done"]_vars

C9_Witness ==
    /\ prog = "cli_explainer"
    /\ lastEvent = Event("run_sync", "raise", "KeyboardInterrupt")
    /\ pc = "tool_prompt"
    /\ out = "switching"

\* C10: in run_chat_interface, an Exception other than KeyboardInterrupt raised
\* while a question is read or answered does not leave the function: it is
\* reported, the tool-name prompt follows, and the session entered from there
\* starts without the old transcript.
C10_ExceptionAbandonsSession ==
    [][/\ (/\ lastEvent'.kind = "raise"
           /\ lastEvent'.at \in {"question_prompt", "run_sync"}
           /\ IsException(lastEvent'.value))
          => pc' = "tool_prompt" /\ out' = "error"
       /\ (pc = "tool_prompt" /\ pc' = "question_prompt") => prev_result' = None]_vars

C10_Witness ==
    /\ prog = "cli_explainer"
    /\ lastEvent = Event("run_sync", "raise", "APIConnectionError")
    /\ pc = "tool_prompt"
    /\ out = "error"
    /\ prev_result # None

-----------------------------------------------------------------------------
(* Properties of the harvester, under SpecHarvest *)

\* text holds part as a run of consecutive pieces
Includes(text, part) ==
    \E i \in 0..(Len(text) - Len(part)) : SubSeq(text, i + 1, i + Len(part)) = part

\* the man-page function named f, applied
ManPageOf(f, tool, ch) ==
    IF f = "get_man_page" THEN get_man_page(tool, ch) ELSE get_manpage(tool, ch)

\* C4: each harvester function returns a string and never raises, whatever
\* launching and running the child does.
C4_HarvesterNeverRaises ==
    (prog = "harvester" /\ result # NoResult) => result.kind = "return"

\* C5: for get_help_text and get_cli_help, when the tool is launched and exits
\* with a non-zero status, the returned string includes the child's standard
\* error.
C5_NonZeroExitIncludesStderr ==
    (/\ fn \in {"get_help_text", "get_cli_help"}
     /\ result.kind = "return"
     /\ child.launch = "ok"
     /\ child.returncode # 0)
        => Includes(result.value, child.stderr)

\* C8: for get_man_page and get_manpage, when 'man' itself is absent the
\* function returns a message that is the same for every tool name and differs
\* from what it returns when 'man' runs and exits with a non-zero status.
C8_ManAbsentFixedMessage ==
    (/\ fn \in {"get_man_page", "get_manpage"}
     /\ result # NoResult
     /\ child.launch = "FileNotFoundError")
        => /\ result.kind = "return"
           /\ \A t \in Tools : ManPageOf(fn, t, child) = result
           /\ \A ch \in ChildOutcomes :
                 (ch.launch = "ok" /\ ch.decodable /\ ch.returncode # 0)
                     => ManPageOf(fn, cli_tool_name, ch) # result

====
